---- MODULE Spec2Model ----
(***************************************************************************)
(* The arc-hives backend: Express handlers that relay single-table reads   *)
(* and writes to a hosted store (Supabase).  The store is the only shared  *)
(* state; every handler is a chain of awaits on store calls.  One action   *)
(* of the model is one store call together with the handler code that     *)
(* runs, without suspending, up to the next await or the response.        *)
(*                                                                         *)
(* Point values are integers in thousandths of a point, so that 0.01 is   *)
(* 10 and a spend of 2.504 is 2504.  An optional value (null or undefined *)
(* in the code) is the empty set, a present value v is {v}.                *)
(***************************************************************************)
EXTENDS Integers, Sequences, FiniteSets, TLC

VARIABLES
    articles,   \* the articles table: row i has id i
    comments,   \* the comments table, in insertion order
    members,    \* the members table: member id -> points balance
    rq,         \* the requests in flight, one per connection slot
    started,    \* number of requests received so far
    failures,   \* number of store calls that returned an error so far
    nextUuid,   \* number of identifiers uuidv4() has handed out
    hist        \* history of what requests did, for the properties

vars == <<articles, comments, members, rq, started, failures, nextUuid, hist>>

----------------------------------------------------------------------------
(* Bounds of the model. *)

MaxRequests == 2    \* requests received in one behaviour
MaxFailures == 1    \* store calls that return an error in one behaviour
MaxArticles == 3    \* rows the articles table can hold
MaxLength == 12     \* characters of a comment whose score is examined
MaxCitations == 3   \* citations of a comment whose score is examined

Slots == {1, 2}     \* requests that can be in flight at the same time

----------------------------------------------------------------------------
(* Optional values. *)

Null == {}
Some(v) == {v}
Val(o) == CHOOSE v \in o : TRUE

\* !x of an optional string: absent or empty
NoText(o) == o = Null \/ o = Some("")

\* !x of an optional number, and of a comment held as its length: absent, 0,
\* or the empty string
NoNumber(o) == o = Null \/ o = Some(0)

----------------------------------------------------------------------------
(* Request inputs. *)

Contents == {"hello", "world"}

\* crypto.createHash('sha256').update(bytes).digest('hex')
Sha256(bytes) ==
    CASE bytes = "" -> "e3b0c44298fc1c149afbf4c8996fb92427ae41e4649b934ca495991b7852b855"
      [] bytes = "hello" -> "2cf24dba5fb0a30e26e83b2ac5b9e29e1b161e5c1fa7425e73043362938b9824"
      [] bytes = "world" -> "486ea46224d1bb4fb680f34f7c9ad96a8f24ec88be73ea8e5a6c65260e9cb8a7"
      [] bytes = "Ahello1" -> "1ec191ef4d63117ab7c03ef65ec9afad13d511df9876579a36f13febd4abec8f"
      [] bytes = "Ahello2" -> "521e6ad43279bb2e9d3b0a31a74dda36c0bf104b39fb3ecad02a0f40639936a9"

\* req.body.sha256 of the upload and verify endpoints: absent, or a digest
ShaInputs == {Null} \cup {Some(Sha256(c)) : c \in Contents}

\* req.body.title: absent, empty, or a title
TitleInputs == {Null, Some(""), Some("A")}

\* req.file (its buffer)
FileInputs == {Null, Some("world")}

\* req.body.content of POST /upload-article: absent, empty, or a text
ContentInputs == {Null, Some(""), Some("hello")}

\* Date.now() at the two submissions of a behaviour, in milliseconds: the
\* same instant or different ones
Times == {1, 2}

\* title + content + Date.now(): the string that /upload-article hashes
HashInput(title, content, now) ==
    CASE title = "A" /\ content = "hello" /\ now = 1 -> "Ahello1"
      [] title = "A" /\ content = "hello" /\ now = 2 -> "Ahello2"

\* req.body of POST /add-comment.
Body(articleId, comment, citations, identifying, member, spend, direction) ==
    [article_id |-> articleId, comment |-> comment,
     citations_count |-> citations, has_identifying_info |-> identifying,
     member_id |-> member, spend_points |-> spend, spend_direction |-> direction]

\* A comment of 200 characters on article 1: without citations, or with one
\* citation and identifying information; without a spend, or with a spend
\* of 2.504 points (anonymous and down, or by member 1, up or down).  A
\* comment is held as its length and a direction as it was sent.
ValidBodies ==
    {Body(Some(1), Some(200), sc[1], sc[2], sp[1], sp[2], sp[3]) :
        sc \in {<<Null, FALSE>>, <<Some(1), TRUE>>},
        sp \in {<<Null, Null, Null>>,
                <<Null, Some(2504), Some("Down")>>,
                <<Some(1), Some(2504), Some("UP")>>,
                <<Some(1), Some(2504), Some("down")>>}}

\* The same comment with a required field absent, an empty comment, the
\* article id 0, or a malformed spend.
InvalidBodies ==
    {Body(Null, Some(200), Null, FALSE, Null, Null, Null),
     Body(Some(1), Null, Null, FALSE, Null, Null, Null),
     Body(Some(1), Some(0), Null, FALSE, Null, Null, Null),
     Body(Some(0), Some(200), Null, FALSE, Null, Null, Null),
     Body(Some(1), Some(200), Null, FALSE, Null, Some(0), Some("up")),
     Body(Some(1), Some(200), Null, FALSE, Some(1), Null, Some("up")),
     Body(Some(1), Some(200), Null, FALSE, Some(1), Some(2504), Null)}

AddCommentBodies == ValidBodies \cup InvalidBodies

\* req.body of POST /add-comment of the handlers that know no spend
PlainBodies == {body \in AddCommentBodies :
                   /\ body.member_id = Null /\ body.spend_points = Null
                   /\ body.spend_direction = Null}

\* Comments on article 1 without a spend, of every length, citation count
\* and disclosure flag within the bounds.
ScoreBodies ==
    {Body(Some(1), Some(l), Some(c), d, Null, Null, Null) :
        l \in 1..MaxLength, c \in 0..MaxCitations, d \in BOOLEAN}

\* req.body of POST /comment: article_id, comment, citations_count and
\* has_identifying_info.
CommentBodies ==
    {[article_id |-> a, comment |-> c, citations_count |-> Some(1),
      has_identifying_info |-> TRUE] : a \in {Null, Some(1)}, c \in {Null, Some(200)}}

----------------------------------------------------------------------------
(* Arithmetic of the handlers.  The numbers of the handlers are IEEE 754    *)
(* doubles.  A double is held exactly as [k, r, s]: its value is            *)
(* k/1000 + r/(1000 * 2^s), where k is the value in thousandths to the      *)
(* nearest thousandth, and the value is a multiple of 2^-s.  An integer of  *)
(* thousandths in the state stands for the double nearest to that decimal, *)
(* which is what a JSON number or the result of toFixed parses to.         *)

Abs(x) == IF x < 0 THEN -x ELSE x

Sign(x) == IF x < 0 THEN -1 ELSE 1

Max(x, y) == IF x < y THEN y ELSE x

Max0(x) == IF x < 0 THEN 0 ELSE x

RECURSIVE Pow2(_)
Pow2(n) == IF n = 0 THEN 1 ELSE 2 * Pow2(n - 1)

\* 2^n modulo 2000
RECURSIVE Pow2Mod(_)
Pow2Mod(n) == IF n = 0 THEN 1 ELSE (2 * Pow2Mod(n - 1)) % 2000

\* r * 2^n
Shift(r, n) == IF r = 0 THEN 0 ELSE r * Pow2(n)

\* The binary exponent of a/1000 for a > 0: floor(log2(a/1000))
RECURSIVE Log2(_)
Log2(a) ==
    IF a >= 2000 THEN Log2(a \div 2) + 1
    ELSE IF a < 1000 THEN Log2(2 * a) - 1
    ELSE 0

\* a/1000 is a power of two
IsPow2(a) ==
    LET e == Log2(a)
    IN  IF e >= 0 THEN a = 1000 * Pow2(e) ELSE a * Pow2(-e) = 1000

Dbl(k, r, s) == [k |-> k, r |-> r, s |-> s]

Zero == Dbl(0, 0, 0)

\* Round to nearest, ties to even, of a/1000 + ep/(1000 * 2^(t+d)) to a
\* multiple of 2^-t, for a > 0: the result less a/1000, in units of
\* 1/(1000 * 2^t).  With x = a * 2^t, only x modulo 2000 is needed: x modulo
\* 1000 is the remainder and the thousands digit the parity of the quotient.
Nearest(a, t, d, ep) ==
    LET x == ((a % 2000) * Pow2Mod(t)) % 2000
        rem == x % 1000
        odd == (x - rem) \div 1000
        den == 1000 * Pow2(d)
        num == rem * Pow2(d) + ep
        low == num \div den
        over == num - low * den
        j == IF 2 * over > den \/ (2 * over = den /\ (odd + low) % 2 = 1)
             THEN low + 1 ELSE low
    IN  1000 * j - rem

\* The double a decimal of k thousandths parses to
Lit(k) ==
    IF k = 0 THEN Zero
    ELSE LET a == Abs(k)
             t == 52 - Log2(a)
         IN  Dbl(k, Sign(k) * Nearest(a, t, 0, 0), t)

\* x + y of two doubles: the exact sum, rounded to 53 bits
Add(x, y) ==
    LET k == x.k + y.k
        s0 == Max(x.s, y.s)
        e == Shift(x.r, s0 - x.s) + Shift(y.r, s0 - y.s)
    IN  IF k = 0 THEN (IF e = 0 THEN Zero ELSE Dbl(0, e, s0))
        ELSE LET a == Abs(k)
                 ep == Sign(k) * e
                 t == 52 - Log2(a) + (IF IsPow2(a) /\ ep < 0 THEN 1 ELSE 0)
             IN  IF t >= s0 THEN Dbl(k, Shift(e, t - s0), t)
                 ELSE Dbl(k, Sign(k) * Nearest(a, t, s0 - t, ep), t)

Neg(x) == Dbl(-x.k, -x.r, x.s)

\* Number(x.toFixed(2)) of a double x, in thousandths: the hundredth nearest
\* to the exact value of |x|, the larger one when both are as near, with the
\* sign of x
ToFixed2(x) ==
    LET a == Abs(x.k)
        ep == Sign(x.k) * x.r
        q == a \div 10
        up == a % 10 > 5 \/ (a % 10 = 5 /\ ep >= 0)
    IN  Sign(x.k) * 10 * (IF up THEN q + 1 ELSE q)

\* Number(x.toFixed(2)) of the decimal of x thousandths
round2(x) == ToFixed2(Lit(x))

\* Number(citations_count) || 0
Citations(citations_count) ==
    IF citations_count = Null THEN 0 ELSE Val(citations_count)

\* Faulty variant of Points: disclosing one's identity costs 5 points.
PointsPenalised(length, citations, identifying) ==
    ToFixed2(Add(Add(Lit(length * 10), Lit(citations * 2000)),
                 Lit(IF identifying THEN -5000 ELSE 0)))

\* comment.length / 100 + citations * 2 + (identifying ? 5 : 0), toFixed(2)
Points(length, citations, identifying) ==
    ToFixed2(Add(Add(Lit(length * 10), Lit(citations * 2000)),
                 Lit(IF identifying THEN 5000 ELSE 0)))

\* points = 0; points += comment.length / 100; points += citations * 2;
\* if (has_identifying_info) points += 5, without toFixed
UnroundedPoints(length, citations, identifying) ==
    LET base == Add(Add(Zero, Lit(length * 10)), Lit(citations * 2000))
    IN  IF identifying THEN Add(base, Lit(5000)) ELSE base

\* comment.length / 10 + citations_count + (has_identifying_info ? 2 : 0)
CommentPointsPart003(length, citations, identifying) ==
    Add(Add(Lit(length * 100), Lit(citations * 1000)),
        Lit(IF identifying THEN 2000 ELSE 0))

\* citations_count * 2 + comment.length / 50 + (has_identifying_info ? 1 : 0)
CommentPoints(length, citations, identifying) ==
    Add(Add(Lit(citations * 2000), Lit(length * 20)),
        Lit(IF identifying THEN 1000 ELSE 0))

----------------------------------------------------------------------------
(* The store.  A call either succeeds or returns { error }; supabase-js    *)
(* reports failures in the returned object and does not throw.            *)

Outcomes == IF failures < MaxFailures THEN {TRUE, FALSE} ELSE {TRUE}

CountFailure(ok) == failures' = IF ok THEN failures ELSE failures + 1

\* One entry of a request's record of the store calls it issued: ok is
\* whether the call returned without an error.
Call(table, verb, ok) == [table |-> table, verb |-> verb, ok |-> ok]

IsWrite(c) == c.verb \in {"insert", "update", "upload"}

\* .from('articles').select('*').eq('sha256', sha): the ids of the matching rows
ArticlesBySha(sha) ==
    {i \in DOMAIN articles : sha # Null /\ articles[i].sha256 = sha}

\* .from(table).select(...).eq('id', id)
ById(table, id) == {i \in DOMAIN table : id = Some(i)}

\* .single(): data is the row when exactly one row matches, otherwise an error
SingleOk(ids) == Cardinality(ids) = 1

\* A numeric column holds a double: the thousandths k in the column and the
\* rest of the exact value beside it.
Rest(x) == [r |-> x.r, s |-> x.s]

\* The double a row holds in its points column
StoredPoints(row) == Dbl(row.points, row.err.r, row.err.s)

\* The uniqueness constraint on articles.sha256: create fails with Conflict
FingerprintConflict(sha) == ArticlesBySha(sha) # {}

\* .from('articles').insert([{ title, ..., sha256 }])
ArticleRow(title, sha) ==
    [title |-> title, sha256 |-> sha, certificate_id |-> Null, points |-> 0,
     err |-> Rest(Zero)]

\* Faulty variant of SetCertificateId: a conditional write, which leaves a
\* certificate_id that is already set as it is (the first write wins).
SetCertificateIdOnce(id, certificateId) ==
    IF id \in DOMAIN articles /\ articles[id].certificate_id = Null
    THEN [articles EXCEPT ![id].certificate_id = Some(certificateId)]
    ELSE articles

\* .from('articles').update({ certificate_id }).eq('id', id)
SetCertificateId(id, certificateId) ==
    IF id \in DOMAIN articles
    THEN [articles EXCEPT ![id].certificate_id = Some(certificateId)]
    ELSE articles

\* Faulty variant of SetArticlePoints: a write that never lowers the total
\* (the larger of the stored and the new value is kept).
SetArticlePointsMax(id, newPoints) ==
    [i \in DOMAIN articles |->
        IF id = Some(i) /\ articles[i].points < newPoints.k
        THEN [articles[i] EXCEPT !.points = newPoints.k,
                                 !.err = Rest(newPoints)]
        ELSE articles[i]]

\* .from('articles').update({ points }).eq('id', article_id)
SetArticlePoints(id, newPoints) ==
    [i \in DOMAIN articles |->
        IF id = Some(i)
        THEN [articles[i] EXCEPT !.points = newPoints.k, !.err = Rest(newPoints)]
        ELSE articles[i]]

\* .from('comments').insert([{ article_id, ..., points }])
CommentRow(articleId, points) ==
    [article_id |-> articleId, points |-> points.k, err |-> Rest(points)]

----------------------------------------------------------------------------
(* Requests. *)

Idle == [op |-> "idle", pc |-> "idle"]

InFlight(s) == rq[s].pc \notin {"idle", "done"}

\* A request takes the first free slot.
CanStart(s) ==
    /\ rq[s].pc = "idle"
    /\ \A t \in Slots : t < s => rq[t].pc # "idle"
    /\ started < MaxRequests

Response(status, kind, articleId, certificateId) ==
    [status |-> status, kind |-> kind, article_id |-> articleId,
     certificate_id |-> certificateId]

NoResponse == Response(0, "none", Null, Null)

\* res.status(400).json({ error: '... required' })
ValidationError == Response(400, "ValidationError", Null, Null)

\* Faulty variant of NotFound: the 404 status is left out, so the answer goes
\* out with the default status of a success.
NotFoundAsSuccess == Response(200, "NotFound", Null, Null)

\* res.status(404).json({ error: 'Article not found.' })
NotFound == Response(404, "NotFound", Null, Null)

\* res.status(500).json({ error: ... })
ServerError == Response(500, "ServerError", Null, Null)

\* What a verify request records on arrival: the certificate ids already
\* returned to callers.  Other requests record nothing.
Seen(s) == hist.certs

NoSeen == <<>>

\* The request of slot s awaits a store call at pc.
Await(s, op, pc, body, loc, log, seen) ==
    rq' = [rq EXCEPT ![s] =
          [op |-> op, pc |-> pc, body |-> body, loc |-> loc, log |-> log,
           res |-> NoResponse, seen |-> seen]]

\* The request of slot s responds: the slot keeps what it was asked, the
\* store calls it issued and what it answered, until the connection closes.
Respond(s, op, body, loc, log, res, seen) ==
    rq' = [rq EXCEPT ![s] =
          [op |-> op, pc |-> "done", body |-> body, loc |-> loc, log |-> log,
           res |-> res, seen |-> seen]]

NoLocals == [none |-> TRUE]

\* Uploads in flight whose insert has not been answered yet.
PendingUploads ==
    Cardinality({s \in Slots : rq[s].pc \in {"uploadStorage", "insertArticle"}})

CanUpload(s) == CanStart(s) /\ Len(articles) + PendingUploads < MaxArticles

----------------------------------------------------------------------------
(* POST /upload (part_001): inserts { title, sha256 } as received.  The    *)
(* insert has no .select(), so whether data holds the inserted row         *)
(* depends on the client library; data[0] of a null data throws into the   *)
(* catch block.                                                            *)

\* The request arrives and issues the insert.
UploadShaArrive(s) ==
    \E title \in TitleInputs, sha \in ShaInputs :
        /\ CanUpload(s)
        /\ started' = started + 1
        /\ Await(s, "upload", "insertArticle", [title |-> title, sha256 |-> sha],
                 NoLocals, <<>>, NoSeen)
        /\ UNCHANGED <<articles, comments, members, failures, nextUuid, hist>>

\* The answer of the insert.
UploadShaInsert(s) ==
    \E ok \in Outcomes, returning \in BOOLEAN :
        /\ rq[s].op = "upload" /\ rq[s].pc = "insertArticle"
        /\ CountFailure(ok)
        /\ LET r == rq[s]
               accepted == ok /\ ~FingerprintConflict(r.body.sha256)
               log == <<Call("articles", "insert", accepted)>>
           IN  /\ articles' = IF accepted
                              THEN Append(articles,
                                          ArticleRow(r.body.title, r.body.sha256))
                              ELSE articles
               /\ Respond(s, r.op, r.body, r.loc, log,
                          IF accepted /\ returning
                          THEN Response(200, "ok", Some(Len(articles) + 1), Null)
                          ELSE ServerError,
                          r.seen)
        /\ UNCHANGED <<comments, members, started, nextUuid, hist>>

----------------------------------------------------------------------------
(* POST /upload (server.js): a multipart upload of a file with a title.    *)
(* The storage bucket is written and never read back by a handler; its     *)
(* contents are not part of the state.                                     *)

\* !title || !file
UploadInvalid(title, file) == NoText(title) \/ file = Null

\* The request arrives: validation and the digest of the file, and the
\* upload to the storage bucket is issued.
UploadFileArrive(s) ==
    \E title \in TitleInputs, file \in FileInputs :
        /\ CanUpload(s)
        /\ started' = started + 1
        /\ LET body == [title |-> title, file |-> file] IN
           IF UploadInvalid(title, file)
           THEN Respond(s, "upload-file", body, NoLocals, <<>>, ValidationError,
                        NoSeen)
           ELSE Await(s, "upload-file", "uploadStorage", body,
                      [sha256 |-> Some(Sha256(Val(file)))], <<>>, NoSeen)
        /\ UNCHANGED <<articles, comments, members, failures, nextUuid, hist>>

\* The answer of the storage upload; the insert of the row is issued.
UploadFileStorage(s) ==
    \E ok \in Outcomes :
        /\ rq[s].op = "upload-file" /\ rq[s].pc = "uploadStorage"
        /\ CountFailure(ok)
        /\ LET r == rq[s]
               log == <<Call("storage", "upload", ok)>>
           IN  IF ok
               THEN Await(s, r.op, "insertArticle", r.body, r.loc, log, r.seen)
               ELSE Respond(s, r.op, r.body, r.loc, log, ServerError, r.seen)
        /\ UNCHANGED <<articles, comments, members, started, nextUuid, hist>>

\* The answer of the insert.
UploadFileInsert(s) ==
    \E ok \in Outcomes, returning \in BOOLEAN :
        /\ rq[s].op = "upload-file" /\ rq[s].pc = "insertArticle"
        /\ CountFailure(ok)
        /\ LET sha == rq[s].loc.sha256
               accepted == ok /\ ~FingerprintConflict(sha)
               log == Append(rq[s].log, Call("articles", "insert", accepted))
           IN  /\ articles' = IF accepted
                              THEN Append(articles, ArticleRow(rq[s].body.title, sha))
                              ELSE articles
               /\ Respond(s, "upload-file", rq[s].body, rq[s].loc, log,
                          IF accepted /\ returning
                          THEN Response(200, "ok", Some(Len(articles) + 1), Null)
                          ELSE ServerError,
                          rq[s].seen)
        /\ UNCHANGED <<comments, members, started, nextUuid, hist>>

----------------------------------------------------------------------------
(* POST /upload-article (part_000): the digest is taken over the title,    *)
(* the content and the time of the submission.                             *)

\* !title || !content
UploadArticleInvalid(title, content) == NoText(title) \/ NoText(content)

\* The request arrives: validation and the digest, and the insert is issued.
UploadArticleArrive(s) ==
    \E title \in TitleInputs, content \in ContentInputs, now \in Times :
        /\ CanUpload(s)
        /\ started' = started + 1
        /\ LET body == [title |-> title, content |-> content] IN
           IF UploadArticleInvalid(title, content)
           THEN /\ now = 1
                /\ Respond(s, "upload-article", body, [sha256 |-> Null], <<>>,
                           ValidationError, NoSeen)
           ELSE Await(s, "upload-article", "insertArticle", body,
                      [sha256 |->
                          Some(Sha256(HashInput(Val(title), Val(content), now)))],
                      <<>>, NoSeen)
        /\ UNCHANGED <<articles, comments, members, failures, nextUuid, hist>>

\* The answer of the insert.
UploadArticleInsert(s) ==
    \E ok \in Outcomes :
        /\ rq[s].op = "upload-article" /\ rq[s].pc = "insertArticle"
        /\ CountFailure(ok)
        /\ LET r == rq[s]
               accepted == ok /\ ~FingerprintConflict(r.loc.sha256)
           IN  /\ articles' = IF accepted
                              THEN Append(articles,
                                          ArticleRow(r.body.title, r.loc.sha256))
                              ELSE articles
               /\ Respond(s, r.op, r.body, r.loc,
                          <<Call("articles", "insert", accepted)>>,
                          IF accepted THEN Response(200, "ok", Null, Null)
                          ELSE ServerError,
                          r.seen)
        /\ UNCHANGED <<comments, members, started, nextUuid, hist>>

----------------------------------------------------------------------------
(* POST /verify-article (part_001). *)

\* error || !data after .single()
LookupMissed(ok, ids) == ~ok \/ ~SingleOk(ids)

\* The request arrives and issues the lookup by fingerprint.
VerifyArticleArrive(s) ==
    \E sha \in ShaInputs :
        /\ CanStart(s)
        /\ started' = started + 1
        /\ Await(s, "verify-article", "selectArticle", [sha256 |-> sha],
                 NoLocals, <<>>, NoSeen)
        /\ UNCHANGED <<articles, comments, members, failures, nextUuid, hist>>

\* The answer of the lookup.
VerifyArticleRead(s) ==
    \E ok \in Outcomes :
        /\ rq[s].op = "verify-article" /\ rq[s].pc = "selectArticle"
        /\ CountFailure(ok)
        /\ LET r == rq[s]
               ids == ArticlesBySha(r.body.sha256)
               missed == LookupMissed(ok, ids)
               log == <<Call("articles", "select", ~missed)>>
               loc == [matched |-> ids,
                       certified |-> {i \in ids : articles[i].certificate_id # Null}]
           IN  Respond(s, r.op, r.body, loc, log,
                       IF missed THEN NotFound
                       ELSE Response(200, "ok", ids, Null),
                       r.seen)
        /\ UNCHANGED <<articles, comments, members, started, nextUuid, hist>>

----------------------------------------------------------------------------
(* POST /verify-article-pdf (part_001). *)

\* The response: the PDF with the article id and the certificate id in it.
PdfResponse(s, body, loc, log, articleId, certificateId, seen) ==
    /\ Respond(s, "verify-article-pdf", body, loc, log,
               Response(200, "ok", Some(articleId), Some(certificateId)), seen)
    /\ hist' = [hist EXCEPT !.certs =
                   IF articleId \in DOMAIN @ THEN @
                   ELSE [i \in DOMAIN @ \cup {articleId} |->
                            IF i = articleId THEN certificateId ELSE @[i]]]

\* if (!certificateId): a certificate id is allocated when the row has none
NeedsCertificate(articleData) == articleData.certificate_id = Null

\* The request arrives and issues the lookup by fingerprint.
VerifyPdfArrive(s) ==
    \E sha \in ShaInputs :
        /\ CanStart(s)
        /\ started' = started + 1
        /\ Await(s, "verify-article-pdf", "selectArticle", [sha256 |-> sha],
                 NoLocals, <<>>, Seen(s))
        /\ UNCHANGED <<articles, comments, members, failures, nextUuid, hist>>

\* The answer of the lookup: 404, or the await of the certificate_id update
\* with a new identifier, or the document is ended with the stored one.
VerifyPdfRead(s) ==
    \E ok \in Outcomes :
        /\ rq[s].op = "verify-article-pdf" /\ rq[s].pc = "selectArticle"
        /\ CountFailure(ok)
        /\ LET r == rq[s]
               ids == ArticlesBySha(r.body.sha256)
               missed == LookupMissed(ok, ids)
               log == <<Call("articles", "select", ~missed)>>
               loc == [matched |-> ids,
                       certified |-> {i \in ids : articles[i].certificate_id # Null}]
           IN  IF missed
               THEN /\ Respond(s, r.op, r.body, loc, log, NotFound, r.seen)
                    /\ UNCHANGED nextUuid
               ELSE LET articleData == articles[Val(ids)] IN
                    IF NeedsCertificate(articleData)
                    THEN /\ nextUuid' = nextUuid + 1
                         /\ Await(s, r.op, "setCertificate", r.body,
                                  loc @@
                                  [articleId |-> Val(ids),
                                   certificateId |-> nextUuid + 1],
                                  log, r.seen)
                    ELSE /\ Await(s, r.op, "pdfEnd", r.body,
                                  loc @@
                                  [articleId |-> Val(ids),
                                   certificateId |->
                                       Val(articleData.certificate_id)],
                                  log, r.seen)
                         /\ UNCHANGED nextUuid
        /\ UNCHANGED <<articles, comments, members, started, hist>>

\* The answer of the awaited update of certificate_id; its result is not
\* looked at.  The document is written and ended.
VerifyPdfWrite(s) ==
    \E ok \in Outcomes :
        /\ rq[s].op = "verify-article-pdf" /\ rq[s].pc = "setCertificate"
        /\ CountFailure(ok)
        /\ articles' = IF ok
                       THEN SetCertificateId(rq[s].loc.articleId,
                                             rq[s].loc.certificateId)
                       ELSE articles
        /\ Await(s, rq[s].op, "pdfEnd", rq[s].body, rq[s].loc,
                 Append(rq[s].log, Call("articles", "update", ok)), rq[s].seen)
        /\ UNCHANGED <<comments, members, started, nextUuid, hist>>

\* doc.on('end'): the response is sent with the identifier the handler
\* holds.
VerifyPdfEnd(s) ==
    /\ rq[s].op = "verify-article-pdf" /\ rq[s].pc = "pdfEnd"
    /\ PdfResponse(s, rq[s].body, rq[s].loc, rq[s].log, rq[s].loc.articleId,
                   rq[s].loc.certificateId, rq[s].seen)
    /\ UNCHANGED <<articles, comments, members, started, failures, nextUuid>>

----------------------------------------------------------------------------
(* POST /comment (part_001).  comment.length of an absent comment throws   *)
(* into the catch block before the insert is issued.                       *)

\* The request arrives: the score, and the insert is issued.
CommentArrive(s) ==
    \E body \in CommentBodies :
        /\ CanStart(s)
        /\ started' = started + 1
        /\ IF body.comment = Null
           THEN Respond(s, "comment", body, NoLocals, <<>>, ServerError, NoSeen)
           ELSE Await(s, "comment", "insertComment", body,
                      [points |-> CommentPoints(Val(body.comment),
                                                Val(body.citations_count),
                                                body.has_identifying_info)],
                      <<>>, NoSeen)
        /\ UNCHANGED <<articles, comments, members, failures, nextUuid, hist>>

\* The answer of the insert.
CommentInsert(s) ==
    \E ok \in Outcomes, returning \in BOOLEAN :
        /\ rq[s].op = "comment" /\ rq[s].pc = "insertComment"
        /\ CountFailure(ok)
        /\ LET r == rq[s] IN
           /\ comments' = IF ok
                          THEN Append(comments,
                                      CommentRow(r.body.article_id, r.loc.points))
                          ELSE comments
           /\ Respond(s, r.op, r.body, r.loc,
                      <<Call("comments", "insert", ok)>>,
                      IF ok /\ returning
                      THEN Response(200, "ok", r.body.article_id, Null)
                      ELSE ServerError,
                      r.seen)
        /\ UNCHANGED <<articles, members, started, nextUuid, hist>>

----------------------------------------------------------------------------
(* POST /add-comment (server.js). *)

\* !article_id || !comment
AddCommentInvalid(body) == NoNumber(body.article_id) \/ NoNumber(body.comment)

\* spend_points != null || spend_direction != null || member_id != null
SpendGiven(body) ==
    body.spend_points # Null \/ body.spend_direction # Null \/ body.member_id # Null

\* !Number.isFinite(parsedSpend) || parsedSpend <= 0
SpendPointsInvalid(body) == body.spend_points = Null \/ Val(body.spend_points) <= 0

\* The strings that toLowerCase() turns into 'up' and into 'down'
SpellingsOfUp ==
    {"UP", "Up", "uP", "up"}

SpellingsOfDown ==
    {"DOWN", "DOWn", "DOwN", "DOwn", "DoWN", "DoWn", "DowN", "Down",
     "dOWN", "dOWn", "dOwN", "dOwn", "doWN", "doWn", "dowN", "down"}

\* String(spend_direction || '').toLowerCase()
Dir(body) ==
    IF NoText(body.spend_direction) THEN ""
    ELSE IF Val(body.spend_direction) \in SpellingsOfUp THEN "up"
    ELSE IF Val(body.spend_direction) \in SpellingsOfDown THEN "down"
    ELSE Val(body.spend_direction)

\* dir !== 'up' && dir !== 'down'
DirectionInvalid(body) == Dir(body) # "up" /\ Dir(body) # "down"

\* spendSign = dir === 'down' ? -1 : 1, and 0 without a spend
SpendSign(body) ==
    IF ~SpendGiven(body) THEN 0
    ELSE IF Dir(body) = "down" THEN -1 ELSE 1

SpendAmount(body) == IF SpendGiven(body) THEN Val(body.spend_points) ELSE 0

\* Faulty variant of InsufficientBalance: only an empty balance is refused.
BalanceCheckSkipped(points, spendAmount) == points <= 0

\* !Number.isFinite(mData.points) || mData.points < spendAmount
InsufficientBalance(points, spendAmount) == points < spendAmount

\* artRow && typeof artRow.points === 'number' ? artRow.points : 0
CurrentPoints(found, articleId) ==
    IF found THEN StoredPoints(articles[Val(articleId)]) ELSE Zero

\* Number((currentPoints + points + spendAdjustment).toFixed(2))
NewPoints(currentPoints, points, spendSign, spendAmount) ==
    ToFixed2(Add(Add(currentPoints, Lit(points)), Lit(spendSign * spendAmount)))

\* Faulty variant of NewMemberPoints: the amount is taken off the balance
\* stored when the deduction is written, not off the balance read for the
\* check.
NewMemberPointsFromStore(memberPoints, spendAmount) ==
    Max0(ToFixed2(Add(Lit(members[1]), Neg(Lit(spendAmount)))))

\* Math.max(0, Number((memberRow.points - spendAmount).toFixed(2)))
NewMemberPoints(memberPoints, spendAmount) ==
    Max0(ToFixed2(Add(Lit(memberPoints), Neg(Lit(spendAmount)))))

\* The response once the comment is inserted: success, whatever became of
\* the update of the article's total.
AddCommentResult(updateOk, articleId) == Response(200, "ok", articleId, Null)

\* Whether the request's update of the article's total returned no error.
UpdateOk(log) ==
    \A k \in DOMAIN log :
        (log[k].table = "articles" /\ log[k].verb = "update") => log[k].ok

\* The locals of the handler before its first store call.
Locals(points, spendAmount, spendSign) ==
    [points |-> points, spendAmount |-> spendAmount, spendSign |-> spendSign,
     memberRow |-> Null, inserted |-> Null, currentPoints |-> Zero,
     newPoints |-> 0]

\* The routes that add a comment and its score to the article's total.
AddCommentOps ==
    {"add-comment", "add-comment/part_000", "add-comment/part_002a",
     "add-comment/part_002b", "add-comment/part_003"}

\* Another request that adds a comment is between its arrival and its
\* response.
Overlapping(s) ==
    \E t \in Slots \ {s} : InFlight(t) /\ rq[t].op \in AddCommentOps

\* Validation of the body, before the first store call.
AddCommentArrive(s) ==
    \E body \in AddCommentBodies :
        /\ CanStart(s)
        /\ started' = started + 1
        /\ LET invalid == \/ AddCommentInvalid(body)
                          \/ SpendGiven(body) /\ SpendPointsInvalid(body)
                          \/ SpendGiven(body) /\ DirectionInvalid(body)
           IN  IF invalid
               THEN /\ Respond(s, "add-comment", body, Locals(0, 0, 0), <<>>,
                               ValidationError, NoSeen)
                    /\ UNCHANGED hist
               ELSE /\ Await(s, "add-comment",
                             IF body.member_id # Null THEN "selectMember"
                             ELSE "insertComment",
                             body,
                             Locals(Points(Val(body.comment),
                                           Citations(body.citations_count),
                                           body.has_identifying_info),
                                    SpendAmount(body), SpendSign(body)),
                             <<>>, NoSeen)
                    /\ hist' = [hist EXCEPT
                          !.overlap = @ \/ Overlapping(s),
                          !.spend = @ \/ SpendGiven(body)]
        /\ UNCHANGED <<articles, comments, members, failures, nextUuid>>

\* A request that was received and has not run yet.
Received(body) ==
    [op |-> "add-comment", pc |-> "received", body |-> body,
     loc |-> Locals(0, 0, 0), log |-> <<>>, res |-> NoResponse, seen |-> NoSeen]

\* The handler run on a received comment without a spend, up to the await
\* of the insert: validation and the computation of the score.
AddCommentScore(s) ==
    /\ rq[s].op = "add-comment" /\ rq[s].pc = "received"
    /\ ~SpendGiven(rq[s].body)
    /\ LET body == rq[s].body IN
       IF AddCommentInvalid(body)
       THEN Respond(s, "add-comment", body, Locals(0, 0, 0), <<>>,
                    ValidationError, NoSeen)
       ELSE Await(s, "add-comment", "insertComment", body,
                  Locals(Points(Val(body.comment),
                                Citations(body.citations_count),
                                body.has_identifying_info),
                         SpendAmount(body), SpendSign(body)),
                  <<>>, NoSeen)
    /\ UNCHANGED <<articles, comments, members, started, failures, nextUuid,
                   hist>>

\* The lookup of the spending member and the balance check.
AddCommentSelectMember(s) ==
    \E ok \in Outcomes :
        /\ rq[s].op = "add-comment" /\ rq[s].pc = "selectMember"
        /\ CountFailure(ok)
        /\ LET r == rq[s]
               ids == ById(members, r.body.member_id)
               found == ok /\ SingleOk(ids)
               log == Append(r.log, Call("members", "select", found))
           IN  IF ~found
               THEN Respond(s, r.op, r.body, r.loc, log,
                            Response(400, "MemberNotFound", Null, Null), r.seen)
               ELSE LET mData == [id |-> Val(ids), points |-> members[Val(ids)]]
                        loc == [r.loc EXCEPT !.memberRow = Some(mData)]
                    IN  IF InsufficientBalance(mData.points, r.loc.spendAmount)
                        THEN Respond(s, r.op, r.body, loc, log,
                                     Response(400, "InsufficientBalance", Null, Null),
                                     r.seen)
                        ELSE Await(s, r.op, "insertComment", r.body, loc, log,
                                   r.seen)
        /\ UNCHANGED <<articles, comments, members, started, nextUuid, hist>>

\* The insert of the comment.
AddCommentInsert(s) ==
    \E ok \in Outcomes :
        /\ rq[s].op = "add-comment" /\ rq[s].pc = "insertComment"
        /\ CountFailure(ok)
        /\ LET r == rq[s]
               log == Append(r.log, Call("comments", "insert", ok))
           IN  IF ok
               THEN /\ comments' = Append(comments,
                                          CommentRow(r.body.article_id,
                                                     Lit(r.loc.points)))
                    /\ Await(s, r.op, "selectArticle", r.body,
                             [r.loc EXCEPT !.inserted = Some(Len(comments) + 1)],
                             log, r.seen)
                    /\ hist' = [hist EXCEPT
                          !.scoreSum[Val(r.body.article_id)] = @ + r.loc.points,
                          !.inserted = @ + 1]
               ELSE /\ Respond(s, r.op, r.body, r.loc, log, ServerError, r.seen)
                    /\ UNCHANGED <<comments, hist>>
        /\ UNCHANGED <<articles, members, started, nextUuid>>

\* The read of the article's current total; its error is not looked at.
AddCommentSelectArticle(s) ==
    \E ok \in Outcomes :
        /\ rq[s].op = "add-comment" /\ rq[s].pc = "selectArticle"
        /\ CountFailure(ok)
        /\ LET r == rq[s]
               found == ok /\ SingleOk(ById(articles, r.body.article_id))
               currentPoints == CurrentPoints(found, r.body.article_id)
           IN  Await(s, r.op, "updateArticle", r.body,
                     [r.loc EXCEPT !.currentPoints = currentPoints,
                                   !.newPoints =
                         NewPoints(currentPoints, r.loc.points, r.loc.spendSign,
                                   r.loc.spendAmount)],
                     Append(r.log, Call("articles", "select", found)), r.seen)
        /\ UNCHANGED <<articles, comments, members, started, nextUuid, hist>>

\* The write of the article's new total; its error is logged only.
AddCommentUpdateArticle(s) ==
    \E ok \in Outcomes :
        /\ rq[s].op = "add-comment" /\ rq[s].pc = "updateArticle"
        /\ CountFailure(ok)
        /\ LET r == rq[s]
               log == Append(r.log, Call("articles", "update", ok))
           IN  /\ articles' = IF ok
                              THEN SetArticlePoints(r.body.article_id,
                                                    Lit(r.loc.newPoints))
                              ELSE articles
               /\ hist' = [hist EXCEPT !.updateFailed = @ \/ ~ok]
               /\ IF r.loc.spendSign # 0 /\ r.loc.memberRow # Null
                  THEN Await(s, r.op, "updateMember", r.body, r.loc, log, r.seen)
                  ELSE Respond(s, r.op, r.body, r.loc, log,
                               AddCommentResult(UpdateOk(log), r.body.article_id),
                               r.seen)
        /\ UNCHANGED <<comments, members, started, nextUuid>>

\* The deduction of the spent points; its error is logged only.
AddCommentUpdateMember(s) ==
    \E ok \in Outcomes :
        /\ rq[s].op = "add-comment" /\ rq[s].pc = "updateMember"
        /\ CountFailure(ok)
        /\ LET r == rq[s]
               memberRow == Val(r.loc.memberRow)
               log == Append(r.log, Call("members", "update", ok))
           IN  /\ members' = IF ok
                             THEN [members EXCEPT ![memberRow.id] =
                                      NewMemberPoints(memberRow.points,
                                                      r.loc.spendAmount)]
                             ELSE members
               /\ Respond(s, r.op, r.body, r.loc, log,
                          AddCommentResult(UpdateOk(log), r.body.article_id),
                          r.seen)
        /\ UNCHANGED <<articles, comments, started, nextUuid, hist>>

----------------------------------------------------------------------------
(* POST /upload (part_003): requires the file only and stores the title    *)
(* and the path of the file, without a digest.                             *)

\* The request arrives: the check of the file, and the upload to the
\* storage bucket is issued.
UploadPart003Arrive(s) ==
    \E title \in TitleInputs, file \in FileInputs :
        /\ CanUpload(s)
        /\ started' = started + 1
        /\ LET body == [title |-> title, file |-> file]
               loc == [sha256 |-> Null]
           IN  IF file = Null
               THEN Respond(s, "upload/part_003", body, loc, <<>>,
                            ValidationError, NoSeen)
               ELSE Await(s, "upload/part_003", "uploadStorage", body, loc,
                          <<>>, NoSeen)
        /\ UNCHANGED <<articles, comments, members, failures, nextUuid, hist>>

\* The answer of the storage upload; the insert of the row is issued.
UploadPart003Storage(s) ==
    \E ok \in Outcomes :
        /\ rq[s].op = "upload/part_003" /\ rq[s].pc = "uploadStorage"
        /\ CountFailure(ok)
        /\ LET r == rq[s]
               log == <<Call("storage", "upload", ok)>>
           IN  IF ok
               THEN Await(s, r.op, "insertArticle", r.body, r.loc, log, r.seen)
               ELSE Respond(s, r.op, r.body, r.loc, log, ServerError, r.seen)
        /\ UNCHANGED <<articles, comments, members, started, nextUuid, hist>>

\* The answer of the insert.
UploadPart003Insert(s) ==
    \E ok \in Outcomes, returning \in BOOLEAN :
        /\ rq[s].op = "upload/part_003" /\ rq[s].pc = "insertArticle"
        /\ CountFailure(ok)
        /\ articles' = IF ok
                       THEN Append(articles, ArticleRow(rq[s].body.title, Null))
                       ELSE articles
        /\ Respond(s, rq[s].op, rq[s].body, rq[s].loc,
                   Append(rq[s].log, Call("articles", "insert", ok)),
                   IF ok /\ returning
                   THEN Response(200, "ok", Some(Len(articles) + 1), Null)
                   ELSE ServerError,
                   rq[s].seen)
        /\ UNCHANGED <<comments, members, started, nextUuid, hist>>

----------------------------------------------------------------------------
(* POST /upload-article (part_002, first server): no validation, the       *)
(* digest is taken over the content alone.  Without a content the digest   *)
(* throws outside any try block: the request is never answered.            *)

\* The request arrives: the digest, and the insert is issued.
UploadArticlePart002Arrive(s) ==
    \E title \in TitleInputs, content \in ContentInputs :
        /\ CanUpload(s)
        /\ started' = started + 1
        /\ LET body == [title |-> title, content |-> content] IN
           IF content = Null
           THEN rq' = [rq EXCEPT ![s] =
                   [op |-> "upload-article/part_002", pc |-> "hung",
                    body |-> body, loc |-> [sha256 |-> Null], log |-> <<>>,
                    res |-> NoResponse, seen |-> NoSeen]]
           ELSE Await(s, "upload-article/part_002", "insertArticle", body,
                      [sha256 |-> Some(Sha256(Val(content)))], <<>>, NoSeen)
        /\ UNCHANGED <<articles, comments, members, failures, nextUuid, hist>>

\* The answer of the insert.
UploadArticlePart002Insert(s) ==
    \E ok \in Outcomes :
        /\ rq[s].op = "upload-article/part_002" /\ rq[s].pc = "insertArticle"
        /\ CountFailure(ok)
        /\ LET r == rq[s]
               accepted == ok /\ ~FingerprintConflict(r.loc.sha256)
           IN  /\ articles' = IF accepted
                              THEN Append(articles,
                                          ArticleRow(r.body.title, r.loc.sha256))
                              ELSE articles
               /\ Respond(s, r.op, r.body, r.loc,
                          <<Call("articles", "insert", accepted)>>,
                          IF accepted THEN Response(200, "ok", Null, Null)
                          ELSE ServerError,
                          r.seen)
        /\ UNCHANGED <<comments, members, started, nextUuid, hist>>

----------------------------------------------------------------------------
(* POST /comment (part_003): validates, and scores a tenth of a point per  *)
(* character.                                                              *)

\* The request arrives: validation and the score, and the insert is issued.
CommentPart003Arrive(s) ==
    \E body \in CommentBodies :
        /\ CanStart(s)
        /\ started' = started + 1
        /\ IF NoNumber(body.article_id) \/ NoNumber(body.comment)
           THEN Respond(s, "comment/part_003", body, NoLocals, <<>>,
                        ValidationError, NoSeen)
           ELSE Await(s, "comment/part_003", "insertComment", body,
                      [points |-> CommentPointsPart003(Val(body.comment),
                                                       Val(body.citations_count),
                                                       body.has_identifying_info)],
                      <<>>, NoSeen)
        /\ UNCHANGED <<articles, comments, members, failures, nextUuid, hist>>

\* The answer of the insert.
CommentPart003Insert(s) ==
    \E ok \in Outcomes :
        /\ rq[s].op = "comment/part_003" /\ rq[s].pc = "insertComment"
        /\ CountFailure(ok)
        /\ LET r == rq[s] IN
           /\ comments' = IF ok
                          THEN Append(comments,
                                      CommentRow(r.body.article_id, r.loc.points))
                          ELSE comments
           /\ Respond(s, r.op, r.body, r.loc,
                      <<Call("comments", "insert", ok)>>,
                      IF ok THEN Response(200, "ok", r.body.article_id, Null)
                      ELSE ServerError,
                      r.seen)
        /\ UNCHANGED <<articles, members, started, nextUuid, hist>>

----------------------------------------------------------------------------
(* POST /add-comment (part_003): the handler of server.js without the      *)
(* spend: member_id, spend_points and spend_direction are not read.        *)

\* The locals of the handler before its first store call.
LocalsPart003(points) ==
    [points |-> points, inserted |-> Null, currentPoints |-> Zero,
     newPoints |-> 0]

\* Number((currentPoints + points).toFixed(2))
NewPointsPart003(currentPoints, points) ==
    ToFixed2(Add(currentPoints, Lit(points)))

\* Validation of the body and the score, before the first store call.
AddCommentPart003Arrive(s) ==
    \E body \in AddCommentBodies :
        /\ CanStart(s)
        /\ started' = started + 1
        /\ IF AddCommentInvalid(body)
           THEN /\ Respond(s, "add-comment/part_003", body, LocalsPart003(0),
                           <<>>, ValidationError, NoSeen)
                /\ UNCHANGED hist
           ELSE /\ Await(s, "add-comment/part_003", "insertComment", body,
                         LocalsPart003(Points(Val(body.comment),
                                              Citations(body.citations_count),
                                              body.has_identifying_info)),
                         <<>>, NoSeen)
                /\ hist' = [hist EXCEPT !.overlap = @ \/ Overlapping(s)]
        /\ UNCHANGED <<articles, comments, members, failures, nextUuid>>

\* The insert of the comment.
AddCommentPart003Insert(s) ==
    \E ok \in Outcomes :
        /\ rq[s].op = "add-comment/part_003" /\ rq[s].pc = "insertComment"
        /\ CountFailure(ok)
        /\ LET r == rq[s]
               log == Append(r.log, Call("comments", "insert", ok))
           IN  IF ok
               THEN /\ comments' = Append(comments,
                                          CommentRow(r.body.article_id,
                                                     Lit(r.loc.points)))
                    /\ Await(s, r.op, "selectArticle", r.body,
                             [r.loc EXCEPT !.inserted = Some(Len(comments) + 1)],
                             log, r.seen)
                    /\ hist' = [hist EXCEPT
                          !.scoreSum[Val(r.body.article_id)] = @ + r.loc.points,
                          !.inserted = @ + 1]
               ELSE /\ Respond(s, r.op, r.body, r.loc, log, ServerError, r.seen)
                    /\ UNCHANGED <<comments, hist>>
        /\ UNCHANGED <<articles, members, started, nextUuid>>

\* The read of the article's current total; its error is not looked at.
AddCommentPart003SelectArticle(s) ==
    \E ok \in Outcomes :
        /\ rq[s].op = "add-comment/part_003" /\ rq[s].pc = "selectArticle"
        /\ CountFailure(ok)
        /\ LET r == rq[s]
               found == ok /\ SingleOk(ById(articles, r.body.article_id))
               currentPoints == CurrentPoints(found, r.body.article_id)
           IN  Await(s, r.op, "updateArticle", r.body,
                     [r.loc EXCEPT !.currentPoints = currentPoints,
                                   !.newPoints =
                         NewPointsPart003(currentPoints, r.loc.points)],
                     Append(r.log, Call("articles", "select", found)), r.seen)
        /\ UNCHANGED <<articles, comments, members, started, nextUuid, hist>>

\* The write of the article's new total; its error is logged only.
AddCommentPart003UpdateArticle(s) ==
    \E ok \in Outcomes :
        /\ rq[s].op = "add-comment/part_003" /\ rq[s].pc = "updateArticle"
        /\ CountFailure(ok)
        /\ LET r == rq[s]
               log == Append(r.log, Call("articles", "update", ok))
           IN  /\ articles' = IF ok
                              THEN SetArticlePoints(r.body.article_id,
                                                    Lit(r.loc.newPoints))
                              ELSE articles
               /\ hist' = [hist EXCEPT !.updateFailed = @ \/ ~ok]
               /\ Respond(s, r.op, r.body, r.loc, log,
                          AddCommentResult(UpdateOk(log), r.body.article_id),
                          r.seen)
        /\ UNCHANGED <<comments, members, started, nextUuid>>

----------------------------------------------------------------------------
(* POST /add-comment of the earlier revisions.  They know no spend.        *)

\* The locals of these handlers: points is a number of thousandths when it
\* went through toFixed and a double when it did not.
PlainLocals(points) ==
    [points |-> points, inserted |-> Null, currentPoints |-> Zero,
     newPoints |-> Zero]

\* The request arrives: validation and the score, up to the await of the
\* insert of the comment.  points is the score as the handler computed it.
ArriveToInsert(s, op, body, points) ==
    /\ CanStart(s)
    /\ started' = started + 1
    /\ IF AddCommentInvalid(body)
       THEN /\ Respond(s, op, body, PlainLocals(points), <<>>, ValidationError,
                       NoSeen)
            /\ UNCHANGED hist
       ELSE /\ Await(s, op, "insertComment", body, PlainLocals(points), <<>>,
                     NoSeen)
            /\ hist' = [hist EXCEPT !.overlap = @ \/ Overlapping(s)]
    /\ UNCHANGED <<articles, comments, members, failures, nextUuid>>

\* The answer of the insert in a handler that then builds the update of the
\* total with a function the store client does not have (supabase.sql in
\* part_000, supabase.raw in part_002): building it throws into the catch
\* block, the update is never issued and the answer is 500.
InsertThenThrow(s, op) ==
    \E ok \in Outcomes :
        /\ rq[s].op = op /\ rq[s].pc = "insertComment"
        /\ CountFailure(ok)
        /\ LET r == rq[s] IN
           /\ comments' = IF ok
                          THEN Append(comments,
                                      CommentRow(r.body.article_id, r.loc.points))
                          ELSE comments
           /\ Respond(s, op, r.body,
                      [r.loc EXCEPT !.inserted =
                          IF ok THEN Some(Len(comments) + 1) ELSE Null],
                      <<Call("comments", "insert", ok)>>, ServerError, r.seen)
           /\ hist' = IF ok
                      THEN [hist EXCEPT
                              !.scoreSum[Val(r.body.article_id)] =
                                  @ + r.loc.points.k,
                              !.inserted = @ + 1]
                      ELSE hist
        /\ UNCHANGED <<articles, members, started, nextUuid>>

\* part_000: the score goes through toFixed(2)
AddCommentPart000Arrive(s) ==
    \E body \in PlainBodies :
        ArriveToInsert(s, "add-comment/part_000", body,
                       IF AddCommentInvalid(body) THEN Zero
                       ELSE Lit(Points(Val(body.comment),
                                       Citations(body.citations_count),
                                       body.has_identifying_info)))

AddCommentPart000Insert(s) == InsertThenThrow(s, "add-comment/part_000")

\* part_002, first server: the score is stored as it was summed
AddCommentPart002FirstArrive(s) ==
    \E body \in PlainBodies :
        ArriveToInsert(s, "add-comment/part_002a", body,
                       IF AddCommentInvalid(body) THEN Zero
                       ELSE UnroundedPoints(Val(body.comment),
                                            Citations(body.citations_count),
                                            body.has_identifying_info))

AddCommentPart002FirstInsert(s) == InsertThenThrow(s, "add-comment/part_002a")

\* part_002, second server: validation and the score
AddCommentPart002Arrive(s) ==
    \E body \in PlainBodies :
        ArriveToInsert(s, "add-comment/part_002b", body,
                       IF AddCommentInvalid(body) THEN 0
                       ELSE Points(Val(body.comment),
                                   Citations(body.citations_count),
                                   body.has_identifying_info))

\* part_002, second server: the answer of the insert of the comment
AddCommentPart002Insert(s) ==
    \E ok \in Outcomes :
        /\ rq[s].op = "add-comment/part_002b" /\ rq[s].pc = "insertComment"
        /\ CountFailure(ok)
        /\ LET r == rq[s]
               log == <<Call("comments", "insert", ok)>>
           IN  IF ok
               THEN /\ comments' = Append(comments,
                                          CommentRow(r.body.article_id,
                                                     Lit(r.loc.points)))
                    /\ Await(s, r.op, "selectArticle", r.body,
                             [r.loc EXCEPT !.inserted = Some(Len(comments) + 1)],
                             log, r.seen)
                    /\ hist' = [hist EXCEPT
                          !.scoreSum[Val(r.body.article_id)] = @ + r.loc.points,
                          !.inserted = @ + 1]
               ELSE /\ Respond(s, r.op, r.body, r.loc, log, ServerError, r.seen)
                    /\ UNCHANGED <<comments, hist>>
        /\ UNCHANGED <<articles, members, started, nextUuid>>

\* Number(articleData.points || 0) + points, not rounded
NewPointsPart002(stored, points) == Add(stored, Lit(points))

\* The read of the article's total: an error is answered 500 and nothing is
\* written.
AddCommentPart002Select(s) ==
    \E ok \in Outcomes :
        /\ rq[s].op = "add-comment/part_002b" /\ rq[s].pc = "selectArticle"
        /\ CountFailure(ok)
        /\ LET r == rq[s]
               found == ok /\ SingleOk(ById(articles, r.body.article_id))
               log == Append(r.log, Call("articles", "select", found))
           IN  IF found
               THEN LET stored == StoredPoints(articles[Val(r.body.article_id)])
                    IN  Await(s, r.op, "updateArticle", r.body,
                              [r.loc EXCEPT !.currentPoints = stored,
                                            !.newPoints =
                                  NewPointsPart002(stored, r.loc.points)],
                              log, r.seen)
               ELSE Respond(s, r.op, r.body, r.loc, log, ServerError, r.seen)
        /\ UNCHANGED <<articles, comments, members, started, nextUuid, hist>>

\* The write of the article's total: an error is answered 500.
AddCommentPart002Update(s) ==
    \E ok \in Outcomes :
        /\ rq[s].op = "add-comment/part_002b" /\ rq[s].pc = "updateArticle"
        /\ CountFailure(ok)
        /\ LET r == rq[s]
           IN  /\ articles' = IF ok
                              THEN SetArticlePoints(r.body.article_id,
                                                    r.loc.newPoints)
                              ELSE articles
               /\ hist' = [hist EXCEPT !.updateFailed = @ \/ ~ok]
               /\ Respond(s, r.op, r.body, r.loc,
                          Append(r.log, Call("articles", "update", ok)),
                          IF ok THEN Response(200, "ok", r.body.article_id, Null)
                          ELSE ServerError,
                          r.seen)
        /\ UNCHANGED <<comments, members, started, nextUuid>>

----------------------------------------------------------------------------
\* The connection closes: the slot is free for the next request.
Release(s) ==
    /\ rq[s].pc = "done"
    /\ rq' = [rq EXCEPT ![s] = Idle]
    /\ UNCHANGED <<articles, comments, members, started, failures, nextUuid, hist>>

\* The server starts against a store that holds one uploaded article, not
\* yet certified and without comments, and one member with 5 points.
Init ==
    /\ articles = <<ArticleRow(Some("A"), Some(Sha256("hello")))>>
    /\ comments = <<>>
    /\ members = [m \in {1} |-> 5000]
    /\ rq = [s \in Slots |-> Idle]
    /\ started = 0
    /\ failures = 0
    /\ nextUuid = 0
    /\ hist = [certs |-> <<>>,
               scoreSum |-> [a \in 1..MaxArticles |-> 0],
               inserted |-> 0,
               overlap |-> FALSE,
               spend |-> FALSE,
               updateFailed |-> FALSE]

Next ==
    \E s \in Slots :
        \/ UploadShaArrive(s)
        \/ UploadShaInsert(s)
        \/ UploadFileArrive(s)
        \/ UploadFileStorage(s)
        \/ UploadFileInsert(s)
        \/ UploadArticleArrive(s)
        \/ UploadArticleInsert(s)
        \/ VerifyArticleArrive(s)
        \/ VerifyArticleRead(s)
        \/ VerifyPdfArrive(s)
        \/ VerifyPdfRead(s)
        \/ VerifyPdfWrite(s)
        \/ VerifyPdfEnd(s)
        \/ CommentArrive(s)
        \/ CommentInsert(s)
        \/ AddCommentArrive(s)
        \/ AddCommentSelectMember(s)
        \/ AddCommentInsert(s)
        \/ AddCommentSelectArticle(s)
        \/ AddCommentUpdateArticle(s)
        \/ AddCommentUpdateMember(s)
        \/ UploadPart003Arrive(s)
        \/ UploadPart003Storage(s)
        \/ UploadPart003Insert(s)
        \/ UploadArticlePart002Arrive(s)
        \/ UploadArticlePart002Insert(s)
        \/ CommentPart003Arrive(s)
        \/ CommentPart003Insert(s)
        \/ AddCommentPart000Arrive(s)
        \/ AddCommentPart000Insert(s)
        \/ AddCommentPart002FirstArrive(s)
        \/ AddCommentPart002FirstInsert(s)
        \/ AddCommentPart002Arrive(s)
        \/ AddCommentPart002Insert(s)
        \/ AddCommentPart002Select(s)
        \/ AddCommentPart002Update(s)
        \/ AddCommentPart003Arrive(s)
        \/ AddCommentPart003Insert(s)
        \/ AddCommentPart003SelectArticle(s)
        \/ AddCommentPart003UpdateArticle(s)
        \/ Release(s)

Spec == Init /\ [][Next]_vars

\* The certificate workflow alone: uploads and verifications.
NextCertify ==
    \E s \in Slots :
        \/ UploadShaArrive(s)
        \/ UploadShaInsert(s)
        \/ UploadFileArrive(s)
        \/ UploadFileStorage(s)
        \/ UploadFileInsert(s)
        \/ VerifyArticleArrive(s)
        \/ VerifyArticleRead(s)
        \/ VerifyPdfArrive(s)
        \/ VerifyPdfRead(s)
        \/ VerifyPdfWrite(s)
        \/ VerifyPdfEnd(s)
        \/ Release(s)

SpecCertify == Init /\ [][NextCertify]_vars

\* The comment workflow alone: comments, scoring and spending.
NextComments ==
    \E s \in Slots :
        \/ CommentArrive(s)
        \/ CommentInsert(s)
        \/ AddCommentArrive(s)
        \/ AddCommentSelectMember(s)
        \/ AddCommentInsert(s)
        \/ AddCommentSelectArticle(s)
        \/ AddCommentUpdateArticle(s)
        \/ AddCommentUpdateMember(s)
        \/ Release(s)

SpecComments == Init /\ [][NextComments]_vars

\* The server has received one comment without a spend, of any length,
\* citation count and disclosure flag within the bounds.
InitScore ==
    /\ articles = <<ArticleRow(Some("A"), Some(Sha256("hello")))>>
    /\ comments = <<>>
    /\ members = [m \in {1} |-> 5000]
    /\ \E body \in ScoreBodies :
          rq = [s \in Slots |-> IF s = 1 THEN Received(body) ELSE Idle]
    /\ started = 1
    /\ failures = 0
    /\ nextUuid = 0
    /\ hist = [certs |-> <<>>,
               scoreSum |-> [a \in 1..MaxArticles |-> 0],
               inserted |-> 0,
               overlap |-> FALSE,
               spend |-> FALSE,
               updateFailed |-> FALSE]

\* The scoring of one comment, from the request to the article's total.
NextScore ==
    \E s \in Slots :
        \/ AddCommentScore(s)
        \/ AddCommentInsert(s)
        \/ AddCommentSelectArticle(s)
        \/ AddCommentUpdateArticle(s)
        \/ Release(s)

SpecScore == InitScore /\ [][NextScore]_vars

\* The submission of articles alone, by each of its handlers.
NextSubmit ==
    \E s \in Slots :
        \/ UploadArticleArrive(s)
        \/ UploadArticleInsert(s)
        \/ UploadFileArrive(s)
        \/ UploadFileStorage(s)
        \/ UploadFileInsert(s)
        \/ UploadShaArrive(s)
        \/ UploadShaInsert(s)
        \/ UploadPart003Arrive(s)
        \/ UploadPart003Storage(s)
        \/ UploadPart003Insert(s)
        \/ UploadArticlePart002Arrive(s)
        \/ UploadArticlePart002Insert(s)
        \/ Release(s)

SpecSubmit == Init /\ [][NextSubmit]_vars

\* The comment handlers of the earlier revisions alone.
NextRevisions ==
    \E s \in Slots :
        \/ CommentPart003Arrive(s)
        \/ CommentPart003Insert(s)
        \/ AddCommentPart000Arrive(s)
        \/ AddCommentPart000Insert(s)
        \/ AddCommentPart002FirstArrive(s)
        \/ AddCommentPart002FirstInsert(s)
        \/ AddCommentPart002Arrive(s)
        \/ AddCommentPart002Insert(s)
        \/ AddCommentPart002Select(s)
        \/ AddCommentPart002Update(s)
        \/ AddCommentPart003Arrive(s)
        \/ AddCommentPart003Insert(s)
        \/ AddCommentPart003SelectArticle(s)
        \/ AddCommentPart003UpdateArticle(s)
        \/ Release(s)

SpecRevisions == Init /\ [][NextRevisions]_vars

----------------------------------------------------------------------------
(* Properties. *)

Finished(s) == rq[s].pc = "done"

VerifyOps == {"verify-article", "verify-article-pdf"}

Writes(log) == {k \in DOMAIN log : IsWrite(log[k])}

\* C1: once a verify-article-pdf request has returned a certificate id for an
\* article, every verify-article-pdf request that arrives later and succeeds
\* on the same article returns that same certificate id.
C1_VerifyIdempotent ==
    \A s \in Slots :
        (/\ Finished(s) /\ rq[s].op = "verify-article-pdf"
         /\ rq[s].res.status = 200
         /\ Val(rq[s].res.article_id) \in DOMAIN rq[s].seen)
        => rq[s].res.certificate_id = Some(rq[s].seen[Val(rq[s].res.article_id)])

\* C2: a stored certificate_id that is not null is never changed by any step
\* of any request.
C2_CertificateStable ==
    [][\A i \in DOMAIN articles :
          articles[i].certificate_id # Null
          => articles'[i].certificate_id = articles[i].certificate_id]_vars

\* C3: the step in which a verify request learns that its fingerprint
\* matches no stored article answers NotFound; the request has issued no
\* write, and the step leaves the articles, comments and members tables as
\* they were.
C3_UnknownFingerprint ==
    [][\A s \in Slots :
          (/\ rq'[s] # rq[s] /\ rq'[s].pc = "done" /\ rq'[s].op \in VerifyOps
           /\ rq'[s].loc.matched = {})
          => /\ rq'[s].res = Response(404, "NotFound", Null, Null)
             /\ Writes(rq'[s].log) = {}
             /\ articles' = articles /\ comments' = comments
             /\ members' = members]_vars

\* A verify-article request and a verify-article-pdf request for the digest
\* of "world", which no article has, were both answered NotFound.
C3_Witness ==
    \E s, t \in Slots :
        /\ rq[s].op = "verify-article" /\ rq[t].op = "verify-article-pdf"
        /\ \A u \in {s, t} :
              /\ Finished(u)
              /\ rq[u].body.sha256 = Some(Sha256("world"))
              /\ rq[u].loc.matched = {}
              /\ rq[u].res.status = 404

\* C4: an add-comment request with a spend by a member whose stored balance
\* is below the amount is answered with the insufficient-balance error and
\* has inserted no comment and issued no write to any table.
C4_InsufficientBalance ==
    \A s \in Slots :
        (/\ Finished(s) /\ rq[s].op = "add-comment"
         /\ rq[s].loc.memberRow # Null
         /\ Val(rq[s].loc.memberRow).points < rq[s].loc.spendAmount)
        => /\ rq[s].res = Response(400, "InsufficientBalance", Null, Null)
           /\ rq[s].loc.inserted = Null
           /\ Writes(rq[s].log) = {}

\* A member's spend of 2.504 points was refused against a balance of 2.5.
C4_Witness ==
    \E s \in Slots :
        /\ Finished(s) /\ rq[s].op = "add-comment"
        /\ rq[s].res.kind = "InsufficientBalance"
        /\ Val(rq[s].loc.memberRow).points = 2500
        /\ rq[s].loc.spendAmount = 2504

\* No add-comment request is between its insert and its response.
Settled == \A s \in Slots : rq[s].op = "add-comment" => ~InFlight(s)

\* C5: after add-comment requests without spend that did not overlap, the
\* article's total is round2 of the sum of their scores.  Requests whose
\* update of the total returned an error are left out: they are the
\* non-fatal aggregation failure.
C5_SequentialTotal ==
    (~hist.overlap /\ ~hist.spend /\ ~hist.updateFailed /\ Settled)
    => \A a \in DOMAIN articles : articles[a].points = round2(hist.scoreSum[a])

\* C6: the points total of every article is non-negative.
C6_TotalNonNegative == \A a \in DOMAIN articles : articles[a].points >= 0

\* C7: after a successful verify request, by either endpoint, on an article
\* that had no certificate_id, the article has one.
C7_CertifiedAfterVerify ==
    \A s \in Slots :
        (/\ Finished(s) /\ rq[s].op \in VerifyOps /\ rq[s].res.status = 200
         /\ rq[s].loc.certified = {})
        => articles[Val(rq[s].loc.matched)].certificate_id # Null

\* The required fields of each endpoint.
MissingRequired(r) ==
    CASE r.op = "upload" -> r.body.title = Null \/ r.body.sha256 = Null
      [] r.op = "upload-file" -> r.body.title = Null \/ r.body.file = Null
      [] r.op \in VerifyOps -> r.body.sha256 = Null
      [] r.op = "comment" -> r.body.article_id = Null \/ r.body.comment = Null
      [] r.op = "add-comment" ->
            \/ r.body.article_id = Null \/ r.body.comment = Null
            \/ SpendGiven(r.body) /\ (SpendPointsInvalid(r.body)
                                      \/ DirectionInvalid(r.body))

\* C8: a request with a required field missing is answered with a validation
\* error and has issued no store call.
C8_ValidateFirst ==
    \A s \in Slots :
        (Finished(s) /\ MissingRequired(rq[s]))
        => rq[s].res = ValidationError /\ rq[s].log = <<>>

\* C9: a request one of whose store calls returned an error is not answered
\* with a success, except for add-comment's read and update of the article's
\* total.
C9_NoSwallowedError ==
    \A s \in Slots :
        (Finished(s) /\ rq[s].res.status = 200)
        => \A k \in DOMAIN rq[s].log :
              \/ rq[s].log[k].ok
              \/ rq[s].op = "add-comment" /\ rq[s].log[k].table = "articles"

\* The calls of a log to one table with one verb.
CallsTo(log, table, verb) ==
    {k \in DOMAIN log : log[k].table = table /\ log[k].verb = verb}

\* The request of slot s inserted its comment and its update of the article's
\* total returned an error.
UpdateFailedAfterInsert(s) ==
    /\ Finished(s) /\ rq[s].op \in AddCommentOps
    /\ rq[s].loc.inserted # Null
    /\ \E k \in CallsTo(rq[s].log, "articles", "update") : ~rq[s].log[k].ok

\* C10: in every revision of the handler, an add-comment request whose insert
\* succeeded and whose update of the article's total failed is answered with a success, its comment is still in
\* the comments table, and the update was issued once.
C10_AggregationNonFatal ==
    \A s \in Slots :
        UpdateFailedAfterInsert(s)
        => /\ rq[s].res.status = 200
           /\ Val(rq[s].loc.inserted) \in DOMAIN comments
           /\ comments[Val(rq[s].loc.inserted)] =
                  CommentRow(rq[s].body.article_id, Lit(rq[s].loc.points))
           /\ Cardinality(CallsTo(rq[s].log, "articles", "update")) = 1
           /\ Cardinality(CallsTo(rq[s].log, "comments", "insert")) = 1

\* The content a finished submission carried: the content of
\* /upload-article or the bytes of the file of /upload.
Submitted(r) ==
    CASE r.op \in {"upload-article", "upload-article/part_002"} -> r.body.content
      [] r.op \in {"upload-file", "upload/part_003"} -> r.body.file
      [] OTHER -> Null

\* C11: two submissions of the same content that reached the store computed
\* the same fingerprint, and they were not both created; and no two stored articles have the same
\* fingerprint.
C11_DuplicateConflict ==
    /\ \A s, t \in Slots :
          (/\ s # t /\ Finished(s) /\ Finished(t)
           /\ Submitted(rq[s]) # Null /\ Submitted(rq[s]) = Submitted(rq[t])
           /\ rq[s].log # <<>> /\ rq[t].log # <<>>)
          => /\ rq[s].loc.sha256 = rq[t].loc.sha256
             /\ ~(rq[s].res.status = 200 /\ rq[t].res.status = 200)
    /\ \A i, j \in DOMAIN articles :
          (i # j /\ articles[i].sha256 # Null)
          => articles[i].sha256 # articles[j].sha256

\* The add-comment requests whose score has been computed.
Scored ==
    {s \in Slots : /\ rq[s].op = "add-comment"
                   /\ rq[s].pc # "received"
                   /\ rq[s].res # ValidationError}

\* C12: the score computed for a comment is not negative, and it is not
\* below the score of any comment that is shorter, or has fewer citations, or
\* lacks the disclosure, the other two inputs being the same.
C12_ScoreMonotone ==
    \A s \in Scored :
        LET length == Val(rq[s].body.comment)
            citations == Citations(rq[s].body.citations_count)
            identifying == rq[s].body.has_identifying_info
            points == rq[s].loc.points
        IN  /\ points >= 0
            /\ \A l \in 0..length : Points(l, citations, identifying) <= points
            /\ \A c \in 0..citations : Points(length, c, identifying) <= points
            /\ Points(length, citations, FALSE) <= points

\* A comment of 2 characters with one citation and identifying information
\* was scored 7.02 and its row was inserted with that score.
C12_Witness ==
    \E s \in Scored :
        /\ rq[s].body.comment = Some(2)
        /\ rq[s].body.citations_count = Some(1)
        /\ rq[s].body.has_identifying_info
        /\ rq[s].loc.points = 7020
        /\ rq[s].loc.inserted # Null
        /\ comments[Val(rq[s].loc.inserted)].points = 7020

\* The verify-article-pdf request of slot s read a null certificate_id on
\* article a, allocated an identifier and its update returned no error.
AllocatedAndWrote(s, a) ==
    /\ rq[s].op = "verify-article-pdf" /\ rq[s].pc \in {"pdfEnd", "done"}
    /\ rq[s].loc.matched = {a}
    /\ rq[s].loc.certified = {}
    /\ Len(rq[s].log) = 2 /\ rq[s].log[2].ok

\* C13: the write of a verify-article-pdf request that read a null
\* certificate_id, when it succeeds, stores the identifier the request
\* allocated whatever is stored by then (the last write wins), and the
\* certificate_id stored after the write differs from the identifier of
\* every other request that also read null on that article and wrote its
\* own; the response such a request sends later carries the identifier it
\* allocated.
C13_LastWriteWins ==
    [][\A s \in Slots :
          /\ (/\ rq[s].op = "verify-article-pdf" /\ rq[s].pc = "setCertificate"
              /\ rq'[s].pc = "pdfEnd" /\ rq'[s].log[2].ok)
             => LET a == rq[s].loc.articleId
                    own == Some(rq[s].loc.certificateId)
                IN  /\ articles'[a].certificate_id = own
                    /\ \A t \in Slots \ {s} :
                          AllocatedAndWrote(t, a)
                          => Some(rq[t].loc.certificateId)
                                 # articles'[a].certificate_id
          /\ (/\ rq[s].op = "verify-article-pdf" /\ rq[s].pc = "pdfEnd"
              /\ rq'[s].pc = "done")
             => rq'[s].res = Response(200, "ok", Some(rq[s].loc.articleId),
                                      Some(rq[s].loc.certificateId))]_vars

\* Two verify-article-pdf requests on article 1 both read a null
\* certificate_id, both wrote their identifier and both were answered; they
\* returned different identifiers and the one the article holds is not the
\* one returned by one of them.
C13_Witness ==
    \E s, t \in Slots :
        /\ s # t /\ AllocatedAndWrote(s, 1) /\ AllocatedAndWrote(t, 1)
        /\ Finished(s) /\ Finished(t)
        /\ rq[s].res.certificate_id # rq[t].res.certificate_id
        /\ articles[1].certificate_id = rq[s].res.certificate_id
        /\ articles[1].certificate_id # rq[t].res.certificate_id

\* The request of slot s is an add-comment request on article a whose read
\* of the total returned the row and whose update returned no error.
ReadAndWrote(s, a) ==
    /\ rq[s].op = "add-comment" /\ rq[s].body.article_id = Some(a)
    /\ \E k \in CallsTo(rq[s].log, "articles", "select") : rq[s].log[k].ok
    /\ \E k \in CallsTo(rq[s].log, "articles", "update") : rq[s].log[k].ok

\* What the request adds to the total it read: its score and its spend.
Increment(r) == r.loc.points + r.loc.spendSign * r.loc.spendAmount

\* C14: the update of an add-comment request stores the total the request
\* read plus its own increment, whatever the total is by then; so when another
\* request read the same total and has written, the stored total holds one
\* of the two increments only.
C14_LostUpdate ==
    [][\A s \in Slots :
          (/\ rq[s].op = "add-comment" /\ rq[s].pc = "updateArticle"
           /\ rq'[s].pc # "updateArticle" /\ ReadAndWrote(s, 1)')
          => /\ articles'[1].points
                   = round2(rq[s].loc.currentPoints.k + Increment(rq[s]))
             /\ \A t \in Slots \ {s} :
                   (/\ ReadAndWrote(t, 1)
                    /\ rq[t].loc.currentPoints = rq[s].loc.currentPoints
                    /\ Increment(rq[t]) > 0)
                   => articles'[1].points
                          < round2(rq[s].loc.currentPoints.k + Increment(rq[s])
                                   + Increment(rq[t]))]_vars

\* Two add-comment requests without a spend, with scores 2.00 and 9.00, both
\* read the total 0 of article 1 and both wrote: the total is 9.00 and not
\* 11.00.
C14_Witness ==
    \E s, t \in Slots :
        /\ s # t /\ Finished(s) /\ Finished(t)
        /\ ReadAndWrote(s, 1) /\ ReadAndWrote(t, 1)
        /\ rq[s].loc.currentPoints = Zero /\ rq[t].loc.currentPoints = Zero
        /\ rq[s].loc.spendSign = 0 /\ rq[t].loc.spendSign = 0
        /\ rq[s].loc.points = 2000 /\ rq[t].loc.points = 9000
        /\ rq[s].res.status = 200 /\ rq[t].res.status = 200
        /\ Len(comments) = 2
        /\ articles[1].points = 9000

\* The request of slot s is an add-comment request with a spend by a member
\* that passed the balance check against the balance b.
PassedCheck(s, b) ==
    /\ rq[s].op = "add-comment"
    /\ rq[s].loc.memberRow # Null
    /\ Val(rq[s].loc.memberRow).points = b
    /\ rq[s].res.kind # "InsufficientBalance"

\* C15: the balance check of a spend compares the amount with the balance
\* stored at that moment, whatever other requests in flight are about to
\* deduct; and the deduction stores the balance read for the check less the
\* amount, whatever the balance is by then.
C15_StaleBalance ==
    [][\A s \in Slots :
          /\ (/\ rq[s].op = "add-comment" /\ rq[s].pc = "selectMember"
              /\ rq'[s].pc = "insertComment")
             => LET b == members[Val(rq[s].body.member_id)]
                IN  PassedCheck(s, b)' /\ b >= rq[s].loc.spendAmount
          /\ (/\ rq[s].op = "add-comment" /\ rq[s].pc = "updateMember"
              /\ rq'[s].pc = "done"
              /\ \E k \in CallsTo(rq'[s].log, "members", "update") :
                    rq'[s].log[k].ok)
             => LET memberRow == Val(rq[s].loc.memberRow)
                IN  members'[memberRow.id]
                      = Max0(round2(memberRow.points - rq[s].loc.spendAmount))]_vars

\* Two requests of member 1, each spending 2.504 points up, both passed the
\* check against the balance 5; both spends are in the article's total, 9.00
\* with the two scores of 2.00, both deductions were written and the balance
\* is 2.5: 5.008 points were spent out of 5.
C15_Witness ==
    \E s, t \in Slots :
        /\ s # t /\ Finished(s) /\ Finished(t)
        /\ PassedCheck(s, 5000) /\ PassedCheck(t, 5000)
        /\ \A u \in {s, t} :
              /\ rq[u].res.status = 200
              /\ rq[u].loc.spendSign = 1 /\ rq[u].loc.spendAmount = 2504
              /\ rq[u].loc.points = 2000
              /\ \A k \in DOMAIN rq[u].log : rq[u].log[k].ok
        /\ rq[s].loc.spendAmount + rq[t].loc.spendAmount > 5000
        /\ articles[1].points = 9000
        /\ members[1] = 2500

\* C16: while add-comment requests do not overlap, the update of the total
\* by a request with a member's spend changes the article's total by the
\* score plus the signed amount, the deduction leaves the member the balance
\* less the amount, not below 0, and the balance is deducted exactly when the
\* adjustment was applied to the article.
C16_SpendApplied ==
    [][~hist.overlap =>
       \A s \in Slots :
          /\ (/\ rq[s].op = "add-comment" /\ rq[s].pc = "updateArticle"
              /\ rq'[s].pc = "updateMember")
             => LET a == Val(rq[s].body.article_id)
                IN  articles'[a].points - articles[a].points = Increment(rq[s])
          /\ (/\ rq[s].op = "add-comment" /\ rq[s].pc = "updateMember"
              /\ rq'[s].pc = "done")
             => LET id == Val(rq[s].loc.memberRow).id
                IN  /\ rq'[s].res.status = 200
                    /\ members'[id] = Max0(members[id] - rq[s].loc.spendAmount)
                    /\ (members'[id] # members[id]) <=> UpdateOk(rq[s].log)]_vars

\* C17: an add-comment request whose read of the article's total returned an
\* error or no row has issued no update of the article's total.
C17_NoWriteAfterFailedRead ==
    \A s \in Slots :
        (/\ rq[s].op = "add-comment"
         /\ \E k \in CallsTo(rq[s].log, "articles", "select") : ~rq[s].log[k].ok)
        => CallsTo(rq[s].log, "articles", "update") = {}

====
